---- MODULE Spec2Model ----
(***************************************************************************)
(* The benchmark runners of notebooks/SVM Comparison.ipynb: run_libsvm,    *)
(* run_thundersvm and run_flk, driven by the notebook's cells.  The three  *)
(* solvers, the error functions and the wall clock are collaborators of    *)
(* the runners; they are modelled by deterministic stubs that record every *)
(* call made to them (log), by the clock time.time() reads (now), and by   *)
(* the text that reaches standard output (stdout).                         *)
(***************************************************************************)
EXTENDS Integers, Sequences, FiniteSets

VARIABLES
    data,      \* the notebook globals Xtr, Ytr, Xts, Yts of the loaded dataset
    cellLeft,  \* runner calls the executing cell has yet to make
    callNo,    \* position of the current call in the executing cell
    pc,        \* the statement the current runner call is at
    args,      \* the current call's arguments
    frame,     \* the current call's locals
    it,        \* iterations Falkon's fit has completed
    now,       \* the system wall clock, as time.time() reads it
    stdout,    \* the text written to standard output by the executing cell
    out0,      \* length of stdout when the current call was entered
    log,       \* the calls the executing cell made, in order
    ret,       \* what the most recent call handed to its caller
    ref        \* one earlier completed call, remembered for comparison

vars == <<data, cellLeft, callNo, pc, args, frame, it, now, stdout, out0, log, ret, ref>>

\* ------------------------------------------------------------------ bounds
MaxClock == 3
MaxIter == 2

\* ------------------------------------------------------- rational numbers
\* Python floats are modelled by exact fractions <<numerator, denominator>>.
RatMul(a, b) == <<a[1] * b[1], a[2] * b[2]>>
RatPow2(a) == RatMul(a, a)
RatIsZero(a) == a[1] = 0
\* a / b for b # 0 (the caller raises ZeroDivisionError otherwise)
RatDiv(a, b) == IF b[1] > 0 THEN <<a[1] * b[2], a[2] * b[1]>>
                ELSE <<-(a[1] * b[2]), -(a[2] * b[1])>>
RatEq(a, b) == a[1] * b[2] = b[1] * a[2]

NoRat == <<0, 0>>

\* ------------------------------------------------------------- tensors
\* A tensor or ndarray: its library, its number of dimensions, its rows.
Tensor(rows) == [lib |-> "torch", dim |-> 2, rows |-> rows]
NoArray == [lib |-> "none", dim |-> 0, rows |-> <<>>]

\* values of the variables that hold nothing yet
NoSolver == [ctor |-> [cls |-> "none"], fitted |-> FALSE, model |-> <<>>]
NoFrame == [gamma |-> NoRat, tsvm |-> NoSolver, t_s |-> 0, t_e |-> 0,
            preds |-> NoArray, test_err |-> NoRat, test_err_name |-> ""]
NoArgs == [runner |-> "none", sigma |-> NoRat, C |-> 0, penalty |-> NoRat, M |-> 0,
           num_iter |-> 0, err_fn |-> "none"]
NoRet == [kind |-> "none", err |-> NoRat, elapsed |-> 0, exc |-> ""]
NoRef == [set |-> FALSE, args |-> NoArgs, dset |-> "none", err |-> NoRat, shown |-> <<>>]

\* X.numpy(): the same values (and memory) seen as a numpy array
Numpy(t) == [t EXCEPT !.lib = "numpy"]
\* torch.from_numpy(a)
FromNumpy(a) == [a EXCEPT !.lib = "torch"]
\* a.reshape(-1, 1): a vector of n entries becomes n rows of one entry
ReshapeCol(a) == [a EXCEPT !.dim = 2, !.rows = [i \in 1..Len(a.rows) |-> <<a.rows[i]>>]]

\* position (from 0) of the maximum entry of a row
ArgMaxRow(row) ==
    (CHOOSE i \in 1..Len(row) :
        /\ \A j \in 1..Len(row) : row[j] <= row[i]
        /\ \A j \in 1..(i - 1) : row[j] < row[i]) - 1
\* Y.argmax(1): the vector of the rows' class indices
ArgMax1(t) == [lib |-> t.lib, dim |-> 1, rows |-> [i \in 1..Len(t.rows) |-> ArgMaxRow(t.rows[i])]]


\* ------------------------------------------------------------ formatting
\* "%.2f" % seconds.  The clock counts thirds of a hundredth of a second, so
\* the formatted value is the nearest hundredth (no ties arise).
FmtElapsed(dt) == IF dt >= 0 THEN (2 * dt + 3) \div 6 ELSE -((2 * (-dt) + 3) \div 6)
\* f"{test_err:9.6f}": the nearest millionth of a non-negative fraction
FmtErr(e) == (2 * 1000000 * e[1] + e[2]) \div (2 * e[2])

\* ---------------------------------------------------------------- inputs
Runners == {"run_libsvm", "run_thundersvm", "run_flk"}
IsSVC(runner) == runner \in {"run_libsvm", "run_thundersvm"}

\* kernel bandwidths: 5 (as in the CIFAR10 and SVHN cells), 1/2, -3 and 0
Sigmas == {<<5, 1>>, <<1, 2>>, <<-3, 1>>, <<0, 1>>}
Cs == {5, 100}
Penalties == {<<2, 1000000>>}
Ms == {20000}
ErrFns == {"c_error", "accuracy"}
SolverErrors == {"MemoryError", "ValueError"}

OneHot(c) == IF c = 0 THEN <<1, 0>> ELSE <<0, 1>>
OneHotRows(cs) == [i \in 1..Len(cs) |-> OneHot(cs[i])]

\* The datasets the load cells leave in Xtr, Ytr, Xts, Yts: features one
\* row per sample, labels one-hot, one row per sample.
Datasets ==
    { [dset |-> "MNIST",
       Xtr |-> Tensor(<< <<0>>, <<1>>, <<1>> >>), Ytr |-> Tensor(OneHotRows(<<0, 1, 1>>)),
       Xts |-> Tensor(<< <<0>>, <<1>>, <<1>> >>), Yts |-> Tensor(OneHotRows(<<0, 1, 0>>))],
      [dset |-> "CIFAR10",
       Xtr |-> Tensor(<< <<2>>, <<0>> >>), Ytr |-> Tensor(OneHotRows(<<1, 0>>)),
       Xts |-> Tensor(<< <<2>>, <<1>> >>), Yts |-> Tensor(OneHotRows(<<1, 0>>))] }

\* the calls the notebook's cells make, all with err_fn=err_fns[0]
CallSites ==
    { [runner |-> "run_libsvm", sigma |-> <<15, 1>>, C |-> 100,
       penalty |-> NoRat, M |-> 0, num_iter |-> 0, err_fn |-> "c_error"],
      [runner |-> "run_flk", sigma |-> <<5, 1>>, C |-> 0,
       penalty |-> <<2, 1000000>>, M |-> 20000, num_iter |-> 5, err_fn |-> "c_error"],
      [runner |-> "run_thundersvm", sigma |-> <<5, 1>>, C |-> 5,
       penalty |-> NoRat, M |-> 0, num_iter |-> 0, err_fn |-> "c_error"] }

\* the most runner calls a cell makes (the CIFAR10 cell: run_flk, then
\* run_thundersvm)
CellCalls == 2

\* every combination of arguments within the bounds
ArgSets ==
    [runner : {"run_libsvm", "run_thundersvm"}, sigma : Sigmas, C : Cs,
     penalty : {NoRat}, M : {0}, num_iter : {0}, err_fn : ErrFns]
    \cup
    [runner : {"run_flk"}, sigma : Sigmas, C : {0},
     penalty : Penalties, M : Ms, num_iter : 1..MaxIter, err_fn : ErrFns]

\* ------------------------------------------------------- the runners' code
\* gamma = 1/(2*sigma**2); the division raises ZeroDivisionError when the
\* divisor is zero
GammaDivisor(sigma) == RatMul(<<2, 1>>, RatPow2(sigma))
\* 1/(2*sigma)**2
GammaSquaredProduct(sigma) == RatDiv(<<1, 1>>, RatPow2(RatMul(<<2, 1>>, sigma)))
Gamma(sigma) == RatDiv(<<1, 1>>, GammaDivisor(sigma))

\* a seed taken from the clock
SeedFromClock == 1234 - 21 + now

\* seed=1234-21
Seed == 1234 - 21

\* the keyword arguments handed to the solver's constructor
CtorArgs(a, gamma) ==
    IF a.runner = "run_libsvm"
    THEN [cls |-> "sklearn.svm.SVC", C |-> a.C, gamma |-> gamma, kernel |-> "rbf", verbose |-> TRUE]
    ELSE IF a.runner = "run_thundersvm"
    THEN [cls |-> "thundersvm.SVC", C |-> a.C, gamma |-> gamma, kernel |-> "rbf", verbose |-> TRUE]
    ELSE [cls |-> "falkon.Falkon", kernel |-> <<"GaussianKernel", a.sigma>>,
          penalty |-> a.penalty, M |-> a.M, maxiter |-> a.num_iter, seed |-> Seed,
          error_fn |-> a.err_fn, error_every |-> 1]

\* as FitArgs, Ytr handed to every solver as it is
FitArgsOneHot(runner, d) ==
    IF IsSVC(runner)
    THEN [X |-> Numpy(d.Xtr), Y |-> d.Ytr, Xts |-> NoArray, Yts |-> NoArray]
    ELSE [X |-> d.Xtr, Y |-> d.Ytr, Xts |-> d.Xts, Yts |-> d.Yts]

\* the arguments of fit
FitArgs(runner, d) ==
    IF IsSVC(runner)
    THEN [X |-> Numpy(d.Xtr), Y |-> ArgMax1(d.Ytr), Xts |-> NoArray, Yts |-> NoArray]
    ELSE [X |-> d.Xtr, Y |-> d.Ytr, Xts |-> d.Xts, Yts |-> d.Yts]

\* the argument of predict
PredictArg(runner, d) == IF IsSVC(runner) THEN Numpy(d.Xts) ELSE d.Xts

\* the arguments of err_fn
ErrArgs(runner, d, preds) ==
    IF IsSVC(runner)
    THEN [ytrue |-> d.Yts, ypred |-> FromNumpy(ReshapeCol(preds))]
    ELSE [ytrue |-> d.Yts, ypred |-> preds]

SolverName(runner) ==
    IF runner = "run_libsvm" THEN "LIBSVM"
    ELSE IF runner = "run_thundersvm" THEN "THUNDERSVM" ELSE "Falkon"

\* print("<SOLVER> elapsed %.2fs" % (t_e - t_s))
ElapsedLine(runner, t_s, t_e) ==
    [src |-> "runner", kind |-> "elapsed", text |-> <<SolverName(runner), FmtElapsed(t_e - t_s)>>]

\* print(f"... - Test {test_err_name}: {test_err:9.6f}", flush=True)
ParamsLine(a, test_err, test_err_name) ==
    [src |-> "runner", kind |-> "params",
     text |-> IF IsSVC(a.runner)
              THEN << <<"Sigma", a.sigma>>, <<"C", a.C>>, <<"Test", test_err_name, FmtErr(test_err)>> >>
              ELSE << <<"M", a.M>>, <<"Sigma", a.sigma>>, <<"Lambda", a.penalty>>,
                      <<"Test", test_err_name, FmtErr(test_err)>> >>]

\* as ReportLines, the two lines in the other order
ReportLinesSwapped(a, f) ==
    << ParamsLine(a, f.test_err, f.test_err_name), ElapsedLine(a.runner, f.t_s, f.t_e) >>

\* the two lines a runner prints, in the order it prints them
ReportLines(a, f) ==
    << ElapsedLine(a.runner, f.t_s, f.t_e), ParamsLine(a, f.test_err, f.test_err_name) >>

\* as ReturnValue, the error rounded as it is printed
ReturnRounded(test_err, t_s, t_e) ==
    [kind |-> "value", err |-> <<FmtErr(test_err), 1000000>>, elapsed |-> t_e - t_s, exc |-> ""]

\* return test_err, t_e - t_s
ReturnValue(test_err, t_s, t_e) == [kind |-> "value", err |-> test_err, elapsed |-> t_e - t_s, exc |-> ""]

\* as Unwind, with a handler that calls fit again when fit raises
UnwindRetry(step, e) ==
    IF step = "fitting"
    THEN [pc |-> "fit", ret |-> ret, args |-> args, frame |-> frame]
    ELSE [pc |-> "raised", ret |-> [kind |-> "exception", err |-> NoRat, elapsed |-> 0, exc |-> e],
          args |-> NoArgs, frame |-> NoFrame]

\* No statement of a runner sits in a try block: an exception raised at a
\* step leaves the runner at once and reaches the caller as it was raised.
\* The runner's locals are gone.
Unwind(step, e) ==
    [pc |-> "raised", ret |-> [kind |-> "exception", err |-> NoRat, elapsed |-> 0, exc |-> e],
     args |-> NoArgs, frame |-> NoFrame]

\* ------------------------------------------------- the collaborators' stubs
\* A deterministic solver stub.  The two SVC stubs predict the majority class
\* of the labels they were fitted on (the smaller class on a tie); the
\* Falkon stub picks one training row as its centre from its seed and
\* predicts that row's label row.
Count(labels, c) == Cardinality({i \in 1..Len(labels) : labels[i] = c})
MajorityClass(labels) ==
    CHOOSE c \in {labels[i] : i \in 1..Len(labels)} :
        \A k \in {labels[i] : i \in 1..Len(labels)} :
            \/ Count(labels, k) < Count(labels, c)
            \/ Count(labels, k) = Count(labels, c) /\ c <= k

StubNew(ctor) == [ctor |-> ctor, fitted |-> FALSE, model |-> <<>>]
StubFit(solver, fa) ==
    [solver EXCEPT !.fitted = TRUE,
                   !.model = IF solver.ctor.cls = "falkon.Falkon"
                             THEN fa.Y.rows[(solver.ctor.seed % Len(fa.Y.rows)) + 1]
                             ELSE <<MajorityClass(fa.Y.rows)>>]
StubPredict(solver, X) ==
    IF solver.ctor.cls = "falkon.Falkon"
    THEN [lib |-> "torch", dim |-> 2, rows |-> [i \in 1..Len(X.rows) |-> solver.model]]
    ELSE [lib |-> "numpy", dim |-> 1, rows |-> [i \in 1..Len(X.rows) |-> solver.model[1]]]

\* The error-function stubs: the class of a row is its only entry, or the
\* position of its maximum; "c_error" is the fraction of rows whose class
\* differs, "accuracy" the fraction of rows whose class agrees.
ClassOf(row) == IF Len(row) = 1 THEN row[1] ELSE ArgMaxRow(row)
Mismatches(ytrue, ypred) ==
    Cardinality({i \in 1..Len(ytrue.rows) : ClassOf(ytrue.rows[i]) # ClassOf(ypred.rows[i])})
ErrFn(fn, ea) ==
    IF fn = "c_error"
    THEN [err |-> <<Mismatches(ea.ytrue, ea.ypred), Len(ea.ytrue.rows)>>, name |-> "c-error"]
    ELSE [err |-> <<Len(ea.ytrue.rows) - Mismatches(ea.ytrue, ea.ypred), Len(ea.ytrue.rows)>>,
          name |-> "acc"]

\* ----------------------------------------------------------------- state

Ev(name, payload) == [call |-> callNo, ev |-> name, a |-> payload]

Init ==
    /\ data \in Datasets
    /\ cellLeft = 0
    /\ callNo = 0
    /\ pc = "idle"
    /\ args = NoArgs
    /\ frame = NoFrame
    /\ it = 0
    /\ now = 0
    /\ stdout = <<>>
    /\ out0 = 0
    /\ log = <<>>
    /\ ret = NoRet
    /\ ref = NoRef

\* ------------------------------------------------------------ the driver
\* A cell of the notebook starts: it loads a dataset into the globals (or
\* keeps the loaded one) and then makes n runner calls one after another.
StartCellOf(n) ==
    /\ pc = "idle"
    /\ cellLeft = 0
    /\ data' \in Datasets
    /\ cellLeft' = n
    /\ callNo' = 0
    /\ stdout' = <<>>
    /\ log' = <<>>
    /\ out0' = 0
    /\ UNCHANGED <<pc, args, frame, it, now, ret, ref>>

\* a cell with one runner call (the MNIST and SVHN cells)
StartCell == StartCellOf(1)

\* a cell with up to CellCalls runner calls (the CIFAR10 cell)
StartCells == \E n \in 1..CellCalls : StartCellOf(n)

\* def run_...(Xtr, Xts, Ytr, Yts, sigma, ..., err_fn): the call is entered
\* with the arguments a; its locals are new.
Enter(a) ==
    /\ pc = "idle"
    /\ cellLeft > 0
    /\ args' = a
    /\ pc' = IF IsSVC(a.runner) THEN "gamma" ELSE "construct"
    /\ cellLeft' = cellLeft - 1
    /\ callNo' = callNo + 1
    /\ frame' = NoFrame
    /\ it' = 0
    /\ out0' = Len(stdout)
    /\ ret' = NoRet
    /\ log' = Append(log, [call |-> callNo + 1, ev |-> "enter", a |-> a])
    /\ UNCHANGED <<data, now, stdout, ref>>

Invoke == \E a \in ArgSets : Enter(a)

InvokeSite == \E a \in CallSites : Enter(a)

\* The system clock: time passes, or the clock is set back.  The runners
\* read the clock at t_s and at t_e only, so its changes are taken where
\* they can be seen: before t_s is read and while fit runs.
Tick ==
    /\ pc \in {"t_s", "fitting"}
    /\ now < MaxClock
    /\ now' = now + 1
    /\ UNCHANGED <<data, cellLeft, callNo, pc, args, frame, it, stdout, out0, log, ret, ref>>

ClockSetBack ==
    /\ pc \in {"t_s", "fitting"}
    /\ now > 0
    /\ now' \in 0..(now - 1)
    /\ UNCHANGED <<data, cellLeft, callNo, pc, args, frame, it, stdout, out0, log, ret, ref>>

\* ----------------------------------------------------------- the runners
\* gamma = 1/(2*sigma**2)                       (run_libsvm, run_thundersvm)
ComputeGamma ==
    /\ pc = "gamma"
    /\ IF RatIsZero(GammaDivisor(args.sigma))
       THEN /\ pc' = Unwind("gamma", "ZeroDivisionError").pc
            /\ ret' = Unwind("gamma", "ZeroDivisionError").ret
            /\ log' = Append(log, Ev("raise", <<"gamma", "ZeroDivisionError">>))
            /\ args' = Unwind("gamma", "ZeroDivisionError").args
            /\ frame' = Unwind("gamma", "ZeroDivisionError").frame
       ELSE /\ pc' = "construct"
            /\ frame' = [frame EXCEPT !.gamma = Gamma(args.sigma)]
            /\ UNCHANGED <<args, ret, log>>
    /\ UNCHANGED <<data, cellLeft, callNo, it, now, stdout, out0, ref>>

\* tsvm = svm.SVC(...) / tsvm = SVC(...) / flk = falkon.Falkon(...)
Construct ==
    /\ pc = "construct"
    /\ frame' = [frame EXCEPT !.tsvm = StubNew(CtorArgs(args, frame.gamma))]
    /\ log' = Append(log, Ev("construct", CtorArgs(args, frame.gamma)))
    /\ pc' = "t_s"
    /\ UNCHANGED <<data, cellLeft, callNo, args, it, now, stdout, out0, ret, ref>>

\* t_s = time.time()
TakeStart ==
    /\ pc = "t_s"
    /\ frame' = [frame EXCEPT !.t_s = now]
    /\ log' = Append(log, Ev("t_s", <<>>))
    /\ pc' = "fit"
    /\ UNCHANGED <<data, cellLeft, callNo, args, it, now, stdout, out0, ret, ref>>

\* tsvm.fit(Xtr.numpy(), Ytr.argmax(1)) / flk.fit(Xtr, Ytr, Xts, Yts) is
\* called; sklearn's SVC, built with verbose=True, writes its "[LibSVM]"
\* marker to standard output.
CallFit ==
    /\ pc = "fit"
    /\ log' = Append(log, Ev("fit", FitArgs(args.runner, data)))
    /\ stdout' = IF args.runner = "run_libsvm"
                 THEN Append(stdout, [src |-> "solver", kind |-> "verbose", text |-> <<"[LibSVM]">>])
                 ELSE stdout
    /\ pc' = "fitting"
    /\ UNCHANGED <<data, cellLeft, callNo, args, frame, it, now, out0, ret, ref>>

\* One iteration of Falkon's fit.  The solver was built with
\* error_fn=err_fn and error_every=1 and fit was given Xts and Yts: after
\* every iteration it predicts on Xts and calls err_fn on (Yts, predictions).
FalkonIteration ==
    /\ pc = "fitting"
    /\ args.runner = "run_flk"
    /\ it < frame.tsvm.ctor.maxiter
    /\ (it + 1) % frame.tsvm.ctor.error_every = 0
    /\ it' = it + 1
    /\ log' = log \o << Ev("cb_predict", FitArgs(args.runner, data).Xts),
                        Ev("cb_err_fn", <<frame.tsvm.ctor.error_fn, FitArgs(args.runner, data).Yts>>) >>
    /\ UNCHANGED <<data, cellLeft, callNo, pc, args, frame, now, stdout, out0, ret, ref>>

\* as FitReturn, the features standardised in place through the array
\* that shares its memory with Xtr
FitReturnInPlace ==
    /\ pc = "fitting"
    /\ IF IsSVC(args.runner) THEN TRUE ELSE it = frame.tsvm.ctor.maxiter
    /\ frame' = [frame EXCEPT !.tsvm = StubFit(frame.tsvm, FitArgs(args.runner, data))]
    /\ data' = [data EXCEPT !.Xtr.rows = [i \in 1..Len(data.Xtr.rows) |-> <<data.Xtr.rows[i][1] - 1>>]]
    /\ log' = Append(log, Ev("fit_ret", <<>>))
    /\ pc' = "t_e"
    /\ UNCHANGED <<cellLeft, callNo, args, it, now, stdout, out0, ret, ref>>

\* as FitReturn, after a first fit made to warm the solver up
FitReturnWarmUp ==
    /\ pc = "fitting"
    /\ IF IsSVC(args.runner) THEN TRUE ELSE it = frame.tsvm.ctor.maxiter
    /\ frame' = [frame EXCEPT !.tsvm = StubFit(frame.tsvm, FitArgs(args.runner, data))]
    /\ log' = Append(log, Ev("fit_ret", <<>>))
    /\ pc' = IF Cardinality({k \in 1..Len(log) : log[k].ev = "fit_ret" /\ log[k].call = callNo}) = 0
             THEN "fit" ELSE "t_e"
    /\ it' = 0
    /\ UNCHANGED <<data, cellLeft, callNo, args, now, stdout, out0, ret, ref>>

\* fit returns
FitReturn ==
    /\ pc = "fitting"
    /\ IF IsSVC(args.runner) THEN TRUE ELSE it = frame.tsvm.ctor.maxiter
    /\ frame' = [frame EXCEPT !.tsvm = StubFit(frame.tsvm, FitArgs(args.runner, data))]
    /\ log' = Append(log, Ev("fit_ret", <<>>))
    /\ pc' = "t_e"
    /\ UNCHANGED <<data, cellLeft, callNo, args, it, now, stdout, out0, ret, ref>>

\* t_e = time.time()
TakeEnd ==
    /\ pc = "t_e"
    /\ frame' = [frame EXCEPT !.t_e = now]
    /\ log' = Append(log, Ev("t_e", <<>>))
    /\ pc' = "predict"
    /\ UNCHANGED <<data, cellLeft, callNo, args, it, now, stdout, out0, ret, ref>>

\* preds = tsvm.predict(Xts.numpy()) / test_preds = flk.predict(Xts)
Predict ==
    /\ pc = "predict"
    /\ frame' = [frame EXCEPT !.preds = StubPredict(frame.tsvm, PredictArg(args.runner, data))]
    /\ log' = Append(log, Ev("predict", PredictArg(args.runner, data)))
    /\ pc' = "err"
    /\ UNCHANGED <<data, cellLeft, callNo, args, it, now, stdout, out0, ret, ref>>

\* test_err, test_err_name = err_fn(Yts, ...)
CallErrFn ==
    /\ pc = "err"
    /\ LET ea == ErrArgs(args.runner, data, frame.preds)
           r == ErrFn(args.err_fn, ea)
       IN /\ frame' = [frame EXCEPT !.test_err = r.err, !.test_err_name = r.name]
          /\ log' = Append(log, Ev("err_fn", [fn |-> args.err_fn, ea |-> ea, r |-> r]))
    /\ pc' = "print1"
    /\ UNCHANGED <<data, cellLeft, callNo, args, it, now, stdout, out0, ret, ref>>

\* print("... elapsed %.2fs" % (t_e - t_s))
PrintElapsed ==
    /\ pc = "print1"
    /\ stdout' = Append(stdout, ReportLines(args, frame)[1])
    /\ pc' = "print2"
    /\ UNCHANGED <<data, cellLeft, callNo, args, frame, it, now, out0, log, ret, ref>>

\* print(f"Sigma {sigma} - ... Test {test_err_name}: {test_err:9.6f}", flush=True)
PrintParams ==
    /\ pc = "print2"
    /\ stdout' = Append(stdout, ReportLines(args, frame)[2])
    /\ pc' = "return"
    /\ UNCHANGED <<data, cellLeft, callNo, args, frame, it, now, out0, log, ret, ref>>

\* return test_err, t_e - t_s: the caller gets the tuple and the call's
\* locals are gone
Returning ==
    /\ pc = "return"
    /\ ret' = ReturnValue(frame.test_err, frame.t_s, frame.t_e)
    /\ log' = Append(log, Ev("return", <<>>))
    /\ pc' = "idle"
    /\ args' = NoArgs
    /\ frame' = NoFrame
    /\ it' = 0
    /\ UNCHANGED <<data, cellLeft, callNo, now, stdout, out0>>

Return == Returning /\ ref' = ref

\* as Return; the call is the one remembered for comparison with later calls
ReturnRemembered ==
    /\ ~ref.set
    /\ Returning
    /\ ref' = [set |-> TRUE, args |-> args, dset |-> data.dset,
               err |-> ret'.err, shown |-> stdout[Len(stdout)].text]

\* The solver's constructor, fit or predict, or err_fn, raises.
Raise ==
    /\ pc \in {"construct", "fitting", "predict", "err"}
    /\ \E e \in SolverErrors :
        /\ pc' = Unwind(pc, e).pc
        /\ ret' = Unwind(pc, e).ret
        /\ args' = Unwind(pc, e).args
        /\ frame' = Unwind(pc, e).frame
        /\ log' = Append(log, Ev("raise", <<pc, e>>))
    /\ it' = 0
    /\ UNCHANGED <<data, cellLeft, callNo, now, stdout, out0, ref>>

\* The exception ends the execution of the calling cell.
CellAbort ==
    /\ pc = "raised"
    /\ pc' = "idle"
    /\ cellLeft' = 0
    /\ UNCHANGED <<data, callNo, args, frame, it, now, stdout, out0, log, ret, ref>>

\* what every runner call does, whoever makes it
Step ==
    \/ Tick
    \/ ClockSetBack
    \/ ComputeGamma
    \/ Construct
    \/ TakeStart
    \/ CallFit
    \/ FalkonIteration
    \/ FitReturn
    \/ TakeEnd
    \/ Predict
    \/ CallErrFn
    \/ PrintElapsed
    \/ PrintParams
    \/ Return
    \/ Raise
    \/ CellAbort

\* Cells of one call each, the call's arguments any within the bounds.
Next == StartCell \/ Invoke \/ Step

Spec == Init /\ [][Next]_vars

\* The notebook's cells: up to CellCalls calls each, the calls those the
\* notebook makes.
NextCells == StartCells \/ InvokeSite \/ ReturnRemembered \/ Step

SpecCells == Init /\ [][NextCells]_vars

\* ================================================================ claims
\* positions in the log of the events named name of call c
EvIdx(name, c) == {k \in 1..Len(log) : log[k].ev = name /\ log[k].call = c}
\* the arguments call c was entered with
EnterArgsOf(c) == log[CHOOSE k \in EvIdx("enter", c) : TRUE].a
\* the events in which the test set is predicted on or err_fn is called
EvalEvents == {"predict", "cb_predict", "err_fn", "cb_err_fn"}
\* the lines the current call itself has written to standard output
OwnLines == SelectSeq(SubSeq(stdout, out0 + 1, Len(stdout)), LAMBDA l : l.src = "runner")
\* the most recent call of the executing cell has completed normally
Completed == ret.kind = "value" /\ pc = "idle" /\ callNo > 0

\* C1: in every runner, no prediction on the test set and no call of err_fn
\* happens between the reading of t_s and the reading of t_e.
C1_TimingWindowCoversOnlyFit ==
    \A k \in 1..Len(log) :
        log[k].ev \in EvalEvents =>
            Cardinality({i \in EvIdx("t_s", log[k].call) : i < k})
                = Cardinality({j \in EvIdx("t_e", log[k].call) : j < k})

\* C2: when a call completes normally, the first element of the returned
\* tuple is the scalar err_fn returned when the runner called it with the
\* test labels Yts and the predictions made on Xts.
C2_ReturnsErrFnScalar ==
    Completed =>
        \E k \in EvIdx("err_fn", callNo) :
            /\ ret.err = log[k].a.r.err
            /\ log[k].a.ea.ytrue = data.Yts
            /\ \E q \in EvIdx("predict", callNo) :
                /\ q < k
                /\ log[q].a.rows = data.Xts.rows
                /\ Len(log[k].a.ea.ypred.rows) = Len(data.Xts.rows)

C2_Witness ==
    /\ Completed
    /\ ret.err = <<2, 3>>
    /\ EnterArgsOf(callNo).runner = "run_libsvm"

\* C3: an exception raised by the solver's constructor, fit or predict, or
\* by err_fn, reaches the caller as it was raised and is the last thing the
\* call does: fit is not called again, no other solver is built, no report
\* line is printed and no tuple is returned.
C3_RaisePropagatesUnchanged ==
    \A k \in 1..Len(log) :
        log[k].ev = "raise" =>
            /\ k = Len(log)
            /\ pc \in {"raised", "idle"}
            /\ ret.kind = "exception"
            /\ ret.exc = log[k].a[2]
            /\ Cardinality(EvIdx("fit", log[k].call)) <= 1
            /\ Cardinality(EvIdx("construct", log[k].call)) <= 1
            /\ OwnLines = <<>>
            /\ EvIdx("return", log[k].call) = {}

C3_Witness ==
    /\ pc = "raised"
    /\ ret.exc = "MemoryError"
    /\ EvIdx("fit", callNo) # {}
    /\ log[Len(log)].a[1] = "fitting"

\* C4: for every call that completes normally, the returned and the
\* reported elapsed time are not negative.
C4_ElapsedNonNegative ==
    Completed =>
        /\ ret.elapsed >= 0
        /\ \A i \in 1..Len(OwnLines) :
            OwnLines[i].kind = "elapsed" => OwnLines[i].text[2] >= 0

\* C5: a call made with the arguments and the dataset of an earlier call
\* (whatever calls were made in between) reports and returns the error
\* value the earlier call reported and returned.
C5_SameInputsSameError ==
    /\ (pc = "return" /\ ref.set /\ ref.args = args /\ ref.dset = data.dset) =>
            /\ frame.test_err = ref.err
            /\ stdout[Len(stdout)].text = ref.shown
    /\ (Completed /\ ref.set /\ ref.args = EnterArgsOf(callNo)
                /\ ref.dset = data.dset) =>
            ret.err = ref.err

C5_Witness ==
    /\ pc = "return"
    /\ ref.set
    /\ ref.args = args
    /\ ref.dset = data.dset
    /\ args.runner = "run_flk"
    /\ callNo = 2

C7_GammaFromSigma ==
    \A k \in 1..Len(log) :
        (log[k].ev = "construct" /\ IsSVC(EnterArgsOf(log[k].call).runner)) =>
            LET sigma == EnterArgsOf(log[k].call).sigma
                g == log[k].a.gamma
            IN /\ sigma[1] # 0
               /\ g[2] # 0
               /\ g[1] * 2 * sigma[1] * sigma[1] = g[2] * sigma[2] * sigma[2]

C7_Witness ==
    /\ pc = "t_s"
    /\ args.runner = "run_thundersvm"
    /\ args.sigma = <<1, 2>>
    /\ RatEq(frame.tsvm.ctor.gamma, <<2, 1>>)

\* C8: a call that completes normally has written exactly two lines of its
\* own: first the solver's name with the elapsed time, then the
\* hyperparameters with the named test error; a runner writes no line
\* before err_fn has returned.
C8_TwoReportLinesInOrder ==
    /\ OwnLines # <<>> => EvIdx("err_fn", callNo) # {}
    /\ Len(OwnLines) <= 2
    /\ Len(OwnLines) >= 1 =>
            /\ OwnLines[1].kind = "elapsed"
            /\ OwnLines[1].text[1] = SolverName(EnterArgsOf(callNo).runner)
    /\ Len(OwnLines) = 2 =>
            LET a == EnterArgsOf(callNo)
                t == OwnLines[2].text
            IN /\ OwnLines[2].kind = "params"
               /\ t[Len(t)][1] = "Test"
               /\ t[Len(t)][2] = log[CHOOSE k \in EvIdx("err_fn", callNo) : TRUE].a.r.name
               /\ \E i \in 1..Len(t) : t[i][1] = "Sigma" /\ t[i][2] = a.sigma
               /\ IF IsSVC(a.runner)
                  THEN \E i \in 1..Len(t) : t[i][1] = "C" /\ t[i][2] = a.C
                  ELSE /\ \E i \in 1..Len(t) : t[i][1] = "M" /\ t[i][2] = a.M
                       /\ \E i \in 1..Len(t) : t[i][1] = "Lambda" /\ t[i][2] = a.penalty
    /\ Completed =>
            /\ Len(OwnLines) = 2
            /\ OwnLines[1].text[2] = FmtElapsed(ret.elapsed)
            /\ OwnLines[2].text[Len(OwnLines[2].text)][3] = FmtErr(ret.err)

C8_Witness ==
    /\ Completed
    /\ EnterArgsOf(callNo).runner = "run_libsvm"
    /\ Len(stdout) = 3
    /\ stdout[1].src = "solver"

\* the place of an event in the one pass a runner call makes
Rank(ev) ==
    IF ev = "enter" THEN 1
    ELSE IF ev = "construct" THEN 2
    ELSE IF ev = "t_s" THEN 3
    ELSE IF ev = "fit" THEN 4
    ELSE IF ev \in {"cb_predict", "cb_err_fn"} THEN 5
    ELSE IF ev = "fit_ret" THEN 6
    ELSE IF ev = "t_e" THEN 7
    ELSE IF ev = "predict" THEN 8
    ELSE IF ev = "err_fn" THEN 9
    ELSE IF ev = "return" THEN 10
    ELSE 11

\* C9: a runner call is one sequential pass: the solver is built, fit is
\* called once, predict is called once and after fit has returned, err_fn
\* is called on the predictions, the call returns; of two calls made back
\* to back, the later starts only after the earlier has returned.
C9_OneSequentialPass ==
    /\ \A k \in 1..(Len(log) - 1) :
        IF log[k + 1].call = log[k].call
        THEN \/ Rank(log[k].ev) < Rank(log[k + 1].ev)
             \/ log[k].ev = "cb_predict" /\ log[k + 1].ev = "cb_err_fn"
             \/ log[k].ev = "cb_err_fn" /\ log[k + 1].ev = "cb_predict"
        ELSE /\ log[k + 1].call = log[k].call + 1
             /\ log[k].ev = "return"
             /\ log[k + 1].ev = "enter"
    /\ \A k \in 1..Len(log) :
        log[k].ev = "return" =>
            \A name \in {"enter", "construct", "t_s", "fit", "fit_ret", "t_e", "predict", "err_fn"} :
                Cardinality(EvIdx(name, log[k].call)) = 1
    /\ \A k \in 1..Len(log) :
        log[k].ev = "err_fn" =>
            \E q \in EvIdx("predict", log[k].call) :
                /\ q < k
                /\ Len(log[k].a.ea.ypred.rows) = Len(log[q].a.rows)

C9_Witness ==
    /\ callNo = 2
    /\ EvIdx("return", 1) # {}
    /\ EnterArgsOf(1).runner = "run_flk"
    /\ EnterArgsOf(2).runner = "run_thundersvm"
    /\ EvIdx("err_fn", 2) # {}

\* C10: run_libsvm and run_thundersvm hand fit the class index of every
\* training row (the position of the row's maximum), run_flk hands fit Ytr
\* as it is; every runner hands err_fn the test labels Yts as they are.
C10_LabelsShapedPerSolver ==
    /\ \A k \in 1..Len(log) :
        log[k].ev = "fit" =>
            LET Y == log[k].a.Y
            IN IF IsSVC(EnterArgsOf(log[k].call).runner)
               THEN /\ Y.dim = 1
                    /\ Len(Y.rows) = Len(data.Ytr.rows)
                    /\ \A i \in 1..Len(Y.rows) :
                        /\ Y.rows[i] \in 0..(Len(data.Ytr.rows[i]) - 1)
                        /\ \A j \in 1..Len(data.Ytr.rows[i]) :
                            data.Ytr.rows[i][j] <= data.Ytr.rows[i][Y.rows[i] + 1]
               ELSE Y = data.Ytr
    /\ \A k \in 1..Len(log) :
        log[k].ev = "err_fn" => log[k].a.ea.ytrue = data.Yts

C10_Witness ==
    /\ pc = "print1"
    /\ args.runner = "run_thundersvm"
    /\ data.dset = "MNIST"
    /\ \E k \in EvIdx("fit", callNo) : log[k].a.Y.rows = <<0, 1, 1>>

C10_WitnessFalkon ==
    /\ pc = "print1"
    /\ args.runner = "run_flk"
    /\ \E k \in EvIdx("fit", callNo) : log[k].a.Y = data.Ytr

====
